---- MODULE Spec2Model ----
(***************************************************************************)
(* Split-payment checkout: the widget routes (init, create-payment-intent, *)
(* remove-payment, complete-checkout), completeCheckout's authorize /      *)
(* capture fan-out, processRefund, and the Stripe webhook handlers, over   *)
(* the transactions / payments / refunds tables and the in-process session *)
(* map.  One action per stretch of code between two awaits that touch      *)
(* mutable state; the payment provider is the environment.                 *)
(***************************************************************************)
EXTENDS Integers, Sequences, FiniteSets, TLC

\* ------------------------------------------------------------- bounds
MaxPayments == 3      \* payment rows (= provider intents) ever created
TwoPayments == 2      \* ... in the specifications with repeated requests
MaxCompletes == 2     \* complete-checkout requests ever made
OneComplete == 1      \* ... in the specifications with a single request
OneSession == 1       \* widget sessions ever created
TwoSessions == 2      \* ... in the specification with a repeated init
MaxInstalls == 2      \* OAuth installs of the app on one shop
MaxAge == 2           \* how many times the clock is advanced over a session
MaxListLen == 6       \* longest list a complete-checkout request carries
MaxTx == 2            \* transaction rows
MaxRefundOps == 2     \* refund requests ever made
MaxRefundRows == 6    \* refund rows ever inserted (MaxRefundOps x MaxPayments)
MaxTotal == 10        \* largest amount handed to distributeProportionally
MaxPortion == 2       \* largest single portion handed to it
MaxPortions == 4      \* longest list of portions handed to it
MaxAdds == 2          \* create-payment-intent requests in flight at once
MaxRows == 6          \* payment rows in the specification with overlapping add-card requests
OneRefund == 1        \* refund requests in the specification with unordered refund events

\* -------------------------------------------------- program constants
MIN_AMOUNT == 100     \* validateAmount's default minAmount
MIN_CARDS == 2        \* validatePaymentAmounts: at least 2 cards
MAX_CARDS == 5        \* validatePaymentAmounts / create-payment-intent
SEED_TOTAL == 15000   \* total_amount of a checkout row that carries its total
INIT_TOTAL == 0       \* total_amount placeholder written by POST /init

Shops == {"shop1", "shop2"}   \* shop2 never installs the app
Tokens == {"tokA", "tokB"}
CardAmounts == {5000, 10000}
RefundAmounts == {7500, 15000}
RequestAmounts == {0, 50, 2500, 5000, 10000}   \* amounts a widget request may carry
OverlapAmounts == {10000}   \* the amount asked by each of two overlapping refunds

VARIABLES
  stores,        \* stores table: shop -> [is_active]
  transactions,  \* transactions table, id = index
  payments,      \* payments table, id = index; row i holds provider intent i
  refunds,       \* refunds table, id = index
  intents,       \* provider side: intent i -> [status, declined]
  widgetSessions, \* the in-process session map, session id = index
  procs,         \* complete-checkout requests in flight or finished
  rprocs,        \* refund requests in flight or finished
  call,          \* a call of a utility function: its arguments and its result
  adds           \* create-payment-intent requests between their count check and their push

vars == <<stores, transactions, payments, refunds, intents, widgetSessions, procs, rprocs, call,
         adds>>

\* ------------------------------------------------------------ helpers
Range(s) == {s[i] : i \in DOMAIN s}

RECURSIVE SumSeq(_)
SumSeq(s) == IF s = <<>> THEN 0 ELSE Head(s) + SumSeq(Tail(s))

RECURSIVE SeqsUpTo(_, _)
\* every sequence over S of length 1..n
SeqsUpTo(S, n) ==
  IF n = 0 THEN {}
  ELSE LET shorter == SeqsUpTo(S, n - 1)
       IN  {<<x>> : x \in S} \cup shorter \cup
           {Append(t, x) : t \in {u \in shorter : Len(u) = n - 1}, x \in S}

\* the index set of a table
Ids(table) == 1..Len(table)

\* UPDATE <table> SET status = st WHERE id = i
SetStatus(table, i, st) == [table EXCEPT ![i].status = st]

\* ------------------------------------------------------- DB queries
\* SELECT * FROM stores WHERE shop_domain = $1 AND is_active = true
getStoreByDomain(shop) == stores[shop].exists /\ stores[shop].is_active

\* ... WHERE shopify_checkout_token = $1 ORDER BY created_at DESC LIMIT 1
\* (0 when there is no row); the store is not part of the lookup
getTransactionByCheckoutToken(token) ==
  LET hits == {t \in Ids(transactions) : transactions[t].token = token}
  IN  IF hits = {} THEN 0 ELSE CHOOSE t \in hits : \A u \in hits : u <= t

\* INSERT INTO transactions (..., status) VALUES (..., 'pending')
createTransaction(shop, token, total) ==
  [store |-> shop, token |-> token, total |-> total, status |-> "pending",
   order |-> FALSE, reason |-> "none"]

\* INSERT INTO payments (...) VALUES ($1, $2, $3, 'pending')
createPayment(tx, amount) == [tx |-> tx, amount |-> amount, status |-> "pending"]

\* SELECT * FROM payments WHERE transaction_id = $1 ORDER BY created_at ASC
getPaymentsByTransactionId(tx) ==
  SelectSeq([i \in Ids(payments) |-> i], LAMBDA i : payments[i].tx = tx)

\* UPDATE transactions SET status = $2 [, failure_reason = $3] WHERE id = $1
\* (no condition on the current status; a null reason leaves the column alone)
updateTransactionStatus(tx, st, reason) ==
  [transactions EXCEPT ![tx].status = st,
                       ![tx].reason = IF reason = "none" THEN @ ELSE reason]

\* ------------------------------------------------------- validation
\* validateAmount(amount) with the default minimum
validateAmount(amount) == amount >= MIN_AMOUNT /\ amount > 0

\* validatePaymentAmounts(totalAmount, paymentAmounts)
validatePaymentAmounts(total, amounts) ==
  /\ Len(amounts) >= MIN_CARDS
  /\ Len(amounts) <= MAX_CARDS
  /\ \A i \in DOMAIN amounts : validateAmount(amounts[i])
  /\ SumSeq(amounts) = total

\* ------------------------------------------------------------- Init
IdleProc == [pc |-> "idle", sid |-> 0, tx |-> 0, list |-> <<>>, exact |-> FALSE,
             authRes |-> <<>>, i |-> 0, authorized |-> <<>>, canRes |-> <<>>,
             capRes |-> <<>>, result |-> "none", saw |-> "none"]

\* no create-payment-intent request in this slot
IdleAdd == [pc |-> "idle", sid |-> 0, amount |-> 0]

IdleRefund == [pc |-> "idle", tx |-> 0, amount |-> 0, total |-> 0, already |-> 0,
               splits |-> <<>>, j |-> 0, results |-> <<>>, result |-> "none",
               sumAfter |-> 0]

\* the stores table after the first install: one row, for shop1, with
\* settings.maxCards = 5 (maxCards 0: the settings hold no maxCards)
SeededStores ==
  [s \in Shops |-> [exists |-> s = "shop1", is_active |-> s = "shop1",
                    access_token |-> IF s = "shop1" THEN 1 ELSE 0,
                    maxCards |-> IF s = "shop1" THEN 5 ELSE 0]]

\* no utility function is being examined
NoCall == [fn |-> "none"]

\* The app is installed for the shop, and the checkout of token tokA has its
\* row with the checkout's total ("when actual checkout data is available");
\* no session, payment or refund exists yet.
Init ==
  /\ stores = SeededStores
  /\ transactions = <<createTransaction("shop1", "tokA", SEED_TOTAL)>>
  /\ payments = <<>>
  /\ refunds = <<>>
  /\ intents = <<>>
  /\ widgetSessions = <<>>
  /\ procs = [p \in 1..MaxCompletes |-> IdleProc]
  /\ rprocs = [q \in 1..MaxRefundOps |-> IdleRefund]
  /\ call = NoCall
  /\ adds = [a \in 1..MaxAdds |-> IdleAdd]

\* ------------------------------------------------------ store events
\* OAuth callback: upsertStore (insert, or on conflict reactivate and store
\* the new access token and the settings {scope, installedAt}; tokens are
\* numbered by the install that issued them)
Install(shop) ==
  /\ ~stores[shop].is_active
  /\ stores[shop].access_token < MaxInstalls
  /\ stores' = [stores EXCEPT ![shop] = [exists |-> TRUE, is_active |-> TRUE,
                                         access_token |-> @.access_token + 1,
                                         maxCards |-> 0]]
  /\ UNCHANGED <<adds, call, transactions, payments, refunds, intents, widgetSessions, procs, rprocs>>

\* app/uninstalled webhook: uninstallStore sets is_active = false
\* (the access_token column is not touched)
handleAppUninstalled(shop) ==
  /\ stores[shop].exists /\ stores[shop].is_active
  /\ stores' = [stores EXCEPT ![shop].is_active = FALSE]
  /\ UNCHANGED <<adds, call, transactions, payments, refunds, intents, widgetSessions, procs, rprocs>>

\* the values an admin may send as settings.maxCards
MaxCardsChoices == 1..6

\* PUT /api/admin/settings with {maxCards}: updateStoreSettings merges the
\* value into the store's settings when it is between 2 and 5, and throws
\* otherwise
updateStoreSettings(shop, maxCards) ==
  /\ getStoreByDomain(shop)
  /\ maxCards >= 2 /\ maxCards <= 5
  /\ stores[shop].maxCards # maxCards
  /\ stores' = [stores EXCEPT ![shop].maxCards = maxCards]
  /\ UNCHANGED <<adds, call, transactions, payments, refunds, intents, widgetSessions, procs, rprocs>>

\* ------------------------------------------------------ widget routes
\* a POST /init that does not look the store up
InitSessionAnyStore(shop, token, sid) ==
  /\ sid = Len(widgetSessions) + 1
  /\ LET found == getTransactionByCheckoutToken(token)
         tx == IF found = 0 THEN Len(transactions) + 1 ELSE found
     IN  /\ found = 0 => Len(transactions) < MaxTx
         /\ transactions' = IF found = 0
                            THEN Append(transactions, createTransaction(shop, token, INIT_TOTAL))
                            ELSE transactions
         /\ widgetSessions' = Append(widgetSessions,
               [live |-> TRUE, tx |-> tx, shop |-> shop, token |-> token, payments |-> <<>>,
                age |-> 0])
  /\ UNCHANGED <<adds, call, stores, payments, refunds, intents, procs, rprocs>>

\* POST /init
InitSession(shop, token, sid) ==
  /\ sid = Len(widgetSessions) + 1
  /\ getStoreByDomain(shop)
  /\ LET found == getTransactionByCheckoutToken(token)
         tx == IF found = 0 THEN Len(transactions) + 1 ELSE found
     IN  /\ found = 0 => Len(transactions) < MaxTx
         /\ transactions' = IF found = 0
                            THEN Append(transactions, createTransaction(shop, token, INIT_TOTAL))
                            ELSE transactions
         /\ widgetSessions' = Append(widgetSessions,
               [live |-> TRUE, tx |-> tx, shop |-> shop, token |-> token, payments |-> <<>>,
                age |-> 0])
  /\ UNCHANGED <<adds, call, stores, payments, refunds, intents, procs, rprocs>>

\* POST /create-payment-intent: createPaymentIntent at the provider (manual
\* capture), createPayment, session.payments.push
AddCard(sid, amount, pid) ==
  /\ sid \in Ids(widgetSessions) /\ widgetSessions[sid].live
  /\ validateAmount(amount)
  /\ Len(widgetSessions[sid].payments) < MAX_CARDS
  /\ pid = Len(payments) + 1
  /\ intents' = Append(intents, [status |-> "requires_payment_method", declined |-> FALSE])
  /\ payments' = Append(payments, createPayment(widgetSessions[sid].tx, amount))
  /\ widgetSessions' = [widgetSessions EXCEPT ![sid].payments = Append(@, Len(payments) + 1)]
  /\ UNCHANGED <<adds, call, stores, transactions, refunds, procs, rprocs>>

\* POST /create-payment-intent up to its first await on the provider: the
\* amount, the session and the count of session.payments have been checked
AddCardBegin(a, sid, amount) ==
  /\ adds[a].pc = "idle"
  /\ sid \in Ids(widgetSessions) /\ widgetSessions[sid].live
  /\ validateAmount(amount)
  /\ Len(widgetSessions[sid].payments) < MAX_CARDS
  /\ adds' = [adds EXCEPT ![a] = [pc |-> "creating", sid |-> sid, amount |-> amount]]
  /\ UNCHANGED <<call, stores, transactions, payments, refunds, intents, widgetSessions, procs,
                 rprocs>>

\* ... and after its awaits: the intent exists at the provider, createPayment
\* has inserted the row and session.payments.push runs, without another look
\* at the count
AddCardPush(a) ==
  /\ adds[a].pc = "creating"
  /\ Len(payments) < MaxRows
  /\ intents' = Append(intents, [status |-> "requires_payment_method", declined |-> FALSE])
  /\ payments' = Append(payments, createPayment(widgetSessions[adds[a].sid].tx, adds[a].amount))
  /\ widgetSessions' = [widgetSessions EXCEPT ![adds[a].sid].payments =
                          Append(@, Len(payments) + 1)]
  /\ adds' = [adds EXCEPT ![a] = IdleAdd]
  /\ UNCHANGED <<call, stores, transactions, refunds, procs, rprocs>>

\* stripe.paymentIntents.cancel: cancels an intent that is not final; on an
\* intent already final the provider answers payment_intent_unexpected_state
CancelAtProvider(its, i) ==
  IF its[i].status \in {"requires_payment_method", "requires_capture"}
  THEN [its EXCEPT ![i].status = "canceled"]
  ELSE its

\* time passes: more than 30 minutes go by, for every session in the map
\* (age counts these periods since the session was set; the map has no timer
\* and no route looks at the time)
Tick ==
  /\ widgetSessions # <<>>
  /\ \A sid \in Ids(widgetSessions) : widgetSessions[sid].age < MaxAge
  /\ widgetSessions' = [sid \in Ids(widgetSessions) |->
                          [widgetSessions[sid] EXCEPT !.age = @ + 1]]
  /\ UNCHANGED <<adds, call, stores, transactions, payments, refunds, intents, procs, rprocs>>

\* a POST /remove-payment that lets the provider's refusal to cancel a final
\* intent surface: the request fails and the entry stays in the session
RemoveCardSurfacing(sid, i, cancelOk) ==
  /\ sid \in Ids(widgetSessions) /\ widgetSessions[sid].live
  /\ i \in Range(widgetSessions[sid].payments)
  /\ intents[i].status \in {"requires_payment_method", "requires_capture"}
  /\ intents' = IF cancelOk THEN CancelAtProvider(intents, i) ELSE intents
  /\ widgetSessions' = [widgetSessions EXCEPT ![sid].payments =
                          SelectSeq(@, LAMBDA x : x # i)]
  /\ UNCHANGED <<adds, call, stores, transactions, payments, refunds, procs, rprocs>>

\* POST /remove-payment: cancelPaymentIntent (errors are logged and dropped),
\* then the entry is spliced out of the session; the payment row stays
RemoveCard(sid, i, cancelOk) ==
  /\ sid \in Ids(widgetSessions) /\ widgetSessions[sid].live
  /\ i \in Range(widgetSessions[sid].payments)
  /\ intents' = IF cancelOk THEN CancelAtProvider(intents, i) ELSE intents
  /\ widgetSessions' = [widgetSessions EXCEPT ![sid].payments =
                          SelectSeq(@, LAMBDA x : x # i)]
  /\ UNCHANGED <<adds, call, stores, transactions, payments, refunds, procs, rprocs>>

\* --------------------------------------------------- complete-checkout
\* the lists of payment-intent ids a request can carry (every id has a
\* payment row: the route throws on an unknown id before anything is written)
SubmittedLists == SeqsUpTo(Ids(payments), MaxPayments)

\* the submitted list holds exactly the session's payments, each once
CoversSession(sid, list) ==
  /\ Len(list) = Len(widgetSessions[sid].payments)
  /\ Range(list) = Range(widgetSessions[sid].payments)

\* the record of a request that has been answered: what it was given, what
\* its authorizations returned and how it ended
Finished(proc, result) ==
  [IdleProc EXCEPT !.pc = "done", !.sid = proc.sid, !.tx = proc.tx, !.list = proc.list,
                   !.exact = proc.exact, !.authRes = proc.authRes, !.saw = proc.saw,
                   !.result = result]

AllSettled(res) == \A k \in DOMAIN res : res[k] # "none"

\* a complete-checkout that marks the transaction before it validates: a
\* request that fails validation leaves the transaction 'failed'
CompleteStartMarking(p, sid, list) ==
  /\ procs[p].pc = "idle"
  /\ IF p = 1 THEN TRUE ELSE procs[p - 1].pc # "idle"
  /\ sid \in Ids(widgetSessions) /\ widgetSessions[sid].live
  /\ Range(list) \subseteq Ids(payments)
  /\ LET tx == widgetSessions[sid].tx
         amounts == [k \in DOMAIN list |-> payments[list[k]].amount]
         valid == validatePaymentAmounts(transactions[tx].total, amounts)
     IN  /\ transactions' = updateTransactionStatus(tx, IF valid THEN "processing" ELSE "failed",
                                                    "none")
         /\ procs' = [procs EXCEPT ![p] =
               [IdleProc EXCEPT !.pc = IF valid THEN "auth" ELSE "done",
                                !.sid = sid, !.tx = tx, !.list = list,
                                !.exact = CoversSession(sid, list),
                                !.authRes = IF valid THEN [k \in DOMAIN list |-> "none"] ELSE <<>>,
                                !.result = IF valid THEN "none" ELSE "rejected",
                                !.saw = transactions[tx].status]]
  /\ UNCHANGED <<adds, call, stores, payments, refunds, intents, widgetSessions, rprocs>>

\* POST /complete-checkout up to completeCheckout's first write: the session
\* and its transaction are read, each submitted id is mapped to its payment
\* row (whatever transaction or session the row belongs to),
\* validatePaymentAmounts runs over the rows' amounts, and the transaction is
\* set to 'processing' whatever its current status
CompleteStart(p, sid, list) ==
  /\ procs[p].pc = "idle"
  /\ IF p = 1 THEN TRUE ELSE procs[p - 1].pc # "idle"
  /\ sid \in Ids(widgetSessions) /\ widgetSessions[sid].live
  /\ Range(list) \subseteq Ids(payments)
  /\ LET tx == widgetSessions[sid].tx
         amounts == [k \in DOMAIN list |-> payments[list[k]].amount]
         valid == validatePaymentAmounts(transactions[tx].total, amounts)
     IN  IF valid
         THEN /\ transactions' = updateTransactionStatus(tx, "processing", "none")
              /\ procs' = [procs EXCEPT ![p] =
                    [IdleProc EXCEPT !.pc = "auth", !.sid = sid, !.tx = tx, !.list = list,
                                     !.exact = CoversSession(sid, list),
                                     !.authRes = [k \in DOMAIN list |-> "none"],
                                     !.saw = transactions[tx].status]]
         ELSE /\ transactions' = transactions
              /\ procs' = [procs EXCEPT ![p] =
                    [IdleProc EXCEPT !.pc = "done", !.sid = sid, !.tx = tx, !.list = list,
                                     !.exact = CoversSession(sid, list),
                                     !.result = "rejected",
                                     !.saw = transactions[tx].status]]
  /\ UNCHANGED <<adds, call, stores, payments, refunds, intents, widgetSessions, rprocs>>

\* one task of the authorize fan-out: paymentIntents.retrieve, and unless the
\* intent is already requires_capture / succeeded, paymentIntents.confirm.
\* The provider cannot confirm a cancelled intent; with faults it may also
\* decline the card.
AuthTask(p, k, ok, faults) ==
  /\ procs[p].pc = "auth"
  /\ k \in DOMAIN procs[p].list
  /\ procs[p].authRes[k] = "none"
  /\ LET it == procs[p].list[k]
         st == intents[it].status
         already == st \in {"requires_capture", "succeeded"}
         res == [procs[p].authRes EXCEPT ![k] = IF ok THEN "ok" ELSE "fail"]
     IN  /\ ok => (already \/ st = "requires_payment_method")
         /\ ~ok => (faults \/ ~(already \/ st = "requires_payment_method"))
         /\ intents' = IF ok /\ ~already
                       THEN [intents EXCEPT ![it].status = "requires_capture"]
                       ELSE IF ~ok /\ st = "requires_payment_method"
                       THEN [intents EXCEPT ![it].declined = TRUE]
                       ELSE intents
         /\ procs' = [procs EXCEPT ![p].authRes = res,
                                   ![p].pc = IF AllSettled(res) THEN "authLoop" ELSE "auth",
                                   ![p].i = IF AllSettled(res) THEN 1 ELSE 0]
  /\ UNCHANGED <<adds, call, stores, transactions, payments, refunds, widgetSessions, rprocs>>

\* a loop over authorizationResults that, at the first rejected result, hands
\* every entry of the request to the compensation, the rejected ones too
AuthLoopStepCancelAll(p) ==
  /\ procs[p].pc = "authLoop"
  /\ LET k == procs[p].i
         it == procs[p].list[k]
         auth == Append(procs[p].authorized, it)
     IN  IF procs[p].authRes[k] = "ok"
         THEN /\ payments' = SetStatus(payments, it, "authorized")
              /\ procs' = [procs EXCEPT
                    ![p].authorized = auth,
                    ![p].i = IF k = Len(procs[p].list) THEN 0 ELSE k + 1,
                    ![p].pc = IF k = Len(procs[p].list) THEN "capture" ELSE "authLoop",
                    ![p].capRes = IF k = Len(procs[p].list)
                                  THEN [n \in DOMAIN auth |-> "none"] ELSE <<>>]
         ELSE /\ payments' = SetStatus(payments, it, "failed")
              /\ procs' = [procs EXCEPT
                    ![p].i = 0,
                    ![p].pc = "cancel",
                    ![p].authorized = procs[p].list,
                    ![p].canRes = [n \in DOMAIN procs[p].list |-> "none"]]
  /\ UNCHANGED <<adds, call, stores, transactions, refunds, intents, widgetSessions, rprocs>>

\* a loop over authorizationResults that marks a rejected result 'failed' and
\* goes on to the next result, so that the fulfilled ones are captured
AuthLoopStepSkipping(p) ==
  /\ procs[p].pc = "authLoop"
  /\ LET k == procs[p].i
         it == procs[p].list[k]
         isOk == procs[p].authRes[k] = "ok"
         auth == IF isOk THEN Append(procs[p].authorized, it) ELSE procs[p].authorized
         last == k = Len(procs[p].list)
     IN  /\ payments' = SetStatus(payments, it, IF isOk THEN "authorized" ELSE "failed")
         /\ procs' = [procs EXCEPT
               ![p].authorized = auth,
               ![p].i = IF last THEN 0 ELSE k + 1,
               ![p].pc = IF ~last THEN "authLoop"
                         ELSE IF auth = <<>> THEN "txFailed" ELSE "capture",
               ![p].capRes = IF last THEN [n \in DOMAIN auth |-> "none"] ELSE <<>>]
  /\ UNCHANGED <<adds, call, stores, transactions, refunds, intents, widgetSessions, rprocs>>

\* one iteration of the loop over authorizationResults: a fulfilled result
\* marks the payment 'authorized'; the first rejected one marks it 'failed'
\* and leaves the loop for the compensation of the payments authorized so far
AuthLoopStep(p) ==
  /\ procs[p].pc = "authLoop"
  /\ LET k == procs[p].i
         it == procs[p].list[k]
         auth == Append(procs[p].authorized, it)
     IN  IF procs[p].authRes[k] = "ok"
         THEN /\ payments' = SetStatus(payments, it, "authorized")
              /\ procs' = [procs EXCEPT
                    ![p].authorized = auth,
                    ![p].i = IF k = Len(procs[p].list) THEN 0 ELSE k + 1,
                    ![p].pc = IF k = Len(procs[p].list) THEN "capture" ELSE "authLoop",
                    ![p].capRes = IF k = Len(procs[p].list)
                                  THEN [n \in DOMAIN auth |-> "none"] ELSE <<>>]
         ELSE /\ payments' = SetStatus(payments, it, "failed")
              /\ procs' = [procs EXCEPT
                    ![p].i = 0,
                    ![p].pc = IF procs[p].authorized = <<>> THEN "txFailed" ELSE "cancel",
                    ![p].canRes = [n \in DOMAIN procs[p].authorized |-> "none"]]
  /\ UNCHANGED <<adds, call, stores, transactions, refunds, intents, widgetSessions, rprocs>>

\* cancelPaymentIntents(authorizedPayments): one cancel of the allSettled
\* fan-out; a rejected cancel is only logged
CancelTask(p, k, ok) ==
  /\ procs[p].pc = "cancel"
  /\ k \in DOMAIN procs[p].canRes
  /\ procs[p].canRes[k] = "none"
  /\ LET res == [procs[p].canRes EXCEPT ![k] = IF ok THEN "ok" ELSE "fail"]
     IN  /\ intents' = IF ok THEN CancelAtProvider(intents, procs[p].authorized[k]) ELSE intents
         /\ procs' = [procs EXCEPT ![p].canRes = res,
                                   ![p].pc = IF AllSettled(res) THEN "void" ELSE "cancel",
                                   ![p].i = IF AllSettled(res) THEN 1 ELSE 0]
  /\ UNCHANGED <<adds, call, stores, transactions, payments, refunds, widgetSessions, rprocs>>

\* "Update payment statuses to voided": every payment of authorizedPayments,
\* whatever its cancel returned
VoidStep(p) ==
  /\ procs[p].pc = "void"
  /\ LET k == procs[p].i
     IN  /\ payments' = SetStatus(payments, procs[p].authorized[k], "voided")
         /\ procs' = [procs EXCEPT
               ![p].i = IF k = Len(procs[p].authorized) THEN 0 ELSE k + 1,
               ![p].pc = IF k = Len(procs[p].authorized) THEN "txFailed" ELSE "void"]
  /\ UNCHANGED <<adds, call, stores, transactions, refunds, intents, widgetSessions, rprocs>>

\* updateTransactionStatus(transactionId, 'failed', `Payment failed: ...`),
\* then throw
TxFailed(p) ==
  /\ procs[p].pc = "txFailed"
  /\ transactions' = updateTransactionStatus(procs[p].tx, "failed", "Payment failed")
  /\ procs' = [procs EXCEPT ![p].pc = "catch", ![p].result = "auth_failed"]
  /\ UNCHANGED <<adds, call, stores, payments, refunds, intents, widgetSessions, rprocs>>

\* one task of the capture fan-out: paymentIntents.capture.  The provider
\* captures an intent that is requires_capture; with faults the call may also
\* fail on such an intent.
CaptureTask(p, k, ok, faults) ==
  /\ procs[p].pc = "capture"
  /\ k \in DOMAIN procs[p].capRes
  /\ procs[p].capRes[k] = "none"
  /\ LET it == procs[p].authorized[k]
         res == [procs[p].capRes EXCEPT ![k] = IF ok THEN "ok" ELSE "fail"]
     IN  /\ ok => intents[it].status = "requires_capture"
         /\ ~ok => (faults \/ intents[it].status # "requires_capture")
         /\ intents' = IF ok THEN [intents EXCEPT ![it].status = "succeeded"] ELSE intents
         /\ procs' = [procs EXCEPT ![p].capRes = res,
                                   ![p].pc = IF AllSettled(res) THEN "capLoop" ELSE "capture",
                                   ![p].i = IF AllSettled(res) THEN 1 ELSE 0]
  /\ UNCHANGED <<adds, call, stores, transactions, payments, refunds, widgetSessions, rprocs>>

\* the indexes of captureResults that were rejected (failedCaptures)
FailedCaptures(p) ==
  SelectSeq([k \in DOMAIN procs[p].capRes |-> k], LAMBDA k : procs[p].capRes[k] = "fail")

\* one iteration of the loop over captureResults: a fulfilled capture marks
\* its payment 'captured', a rejected one is collected; after the last
\* result the call goes on to void the failed ones or to 'completed'
CapLoopStep(p) ==
  /\ procs[p].pc = "capLoop"
  /\ LET k == procs[p].i
         last == k = Len(procs[p].capRes)
     IN  /\ payments' = IF procs[p].capRes[k] = "ok"
                        THEN SetStatus(payments, procs[p].authorized[k], "captured")
                        ELSE payments
         /\ procs' = [procs EXCEPT
               ![p].i = IF last THEN (IF FailedCaptures(p) = <<>> THEN 0 ELSE 1) ELSE k + 1,
               ![p].pc = IF ~last THEN "capLoop"
                         ELSE IF FailedCaptures(p) = <<>> THEN "txCompleted" ELSE "voidFailed"]
  /\ UNCHANGED <<adds, call, stores, transactions, refunds, intents, widgetSessions, rprocs>>

\* "Attempt to void failed captures": cancelPaymentIntent of each failed
\* capture in turn, errors logged; no payment row is written
VoidFailedStep(p, ok) ==
  /\ procs[p].pc = "voidFailed"
  /\ LET f == FailedCaptures(p)
         k == procs[p].i
     IN  /\ intents' = IF ok THEN CancelAtProvider(intents, procs[p].authorized[f[k]]) ELSE intents
         /\ procs' = [procs EXCEPT
               ![p].i = IF k = Len(f) THEN 0 ELSE k + 1,
               ![p].pc = IF k = Len(f) THEN "txCapFailed" ELSE "voidFailed"]
  /\ UNCHANGED <<adds, call, stores, transactions, payments, refunds, widgetSessions, rprocs>>

\* updateTransactionStatus(transactionId, 'failed', 'Capture failed after
\* authorization'), then throw
TxCapFailed(p) ==
  /\ procs[p].pc = "txCapFailed"
  /\ transactions' = updateTransactionStatus(procs[p].tx, "failed",
                                             "Capture failed after authorization")
  /\ procs' = [procs EXCEPT ![p].pc = "catch", ![p].result = "capture_failed"]
  /\ UNCHANGED <<adds, call, stores, payments, refunds, intents, widgetSessions, rprocs>>

\* the catch block: updateTransactionStatus(transactionId, 'failed',
\* error.message) with the message of the error just thrown, then rethrow;
\* the route answers 400 and keeps the session
CatchFailed(p) ==
  /\ procs[p].pc = "catch"
  /\ transactions' = updateTransactionStatus(procs[p].tx, "failed",
        IF procs[p].result = "auth_failed" THEN "Card payment failed"
        ELSE "Payment capture failed - transaction voided")
  /\ procs' = [procs EXCEPT ![p] = Finished(procs[p], procs[p].result)]
  /\ UNCHANGED <<adds, call, stores, payments, refunds, intents, widgetSessions, rprocs>>

\* "Step 3: All payments captured successfully"
TxCompleted(p) ==
  /\ procs[p].pc = "txCompleted"
  /\ transactions' = updateTransactionStatus(procs[p].tx, "completed", "none")
  /\ procs' = [procs EXCEPT ![p].pc = "order", ![p].result = "completed"]
  /\ UNCHANGED <<adds, call, stores, payments, refunds, intents, widgetSessions, rprocs>>

\* a route that would undo the checkout when the order cannot be created:
\* the transaction is marked 'failed' on an order failure
CreateOrderRollsBack(p, ok) ==
  /\ procs[p].pc = "order"
  /\ ok => getStoreByDomain(widgetSessions[procs[p].sid].shop)
  /\ transactions' = IF ok THEN [transactions EXCEPT ![procs[p].tx].order = TRUE]
                     ELSE updateTransactionStatus(procs[p].tx, "failed", "Order failed")
  /\ widgetSessions' = IF ok
        THEN [widgetSessions EXCEPT ![procs[p].sid].live = FALSE,
                                    ![procs[p].sid].payments = <<>>]
        ELSE widgetSessions
  /\ procs' = [procs EXCEPT ![p] = Finished(procs[p], IF ok THEN "ok" ELSE "order_failed")]
  /\ UNCHANGED <<adds, call, stores, payments, refunds, intents, rprocs>>

\* createShopifyOrder, then widgetSessions.delete: the order is posted for an
\* active store and its id written to the transaction; when the store lookup
\* or the platform call throws, the route answers 400, the session stays and
\* the transaction is left as completeCheckout wrote it
CreateOrder(p, ok) ==
  /\ procs[p].pc = "order"
  /\ ok => getStoreByDomain(widgetSessions[procs[p].sid].shop)
  /\ transactions' = IF ok THEN [transactions EXCEPT ![procs[p].tx].order = TRUE]
                     ELSE transactions
  /\ widgetSessions' = IF ok
        THEN [widgetSessions EXCEPT ![procs[p].sid].live = FALSE,
                                    ![procs[p].sid].payments = <<>>]
        ELSE widgetSessions
  /\ procs' = [procs EXCEPT ![p] = Finished(procs[p], IF ok THEN "ok" ELSE "order_failed")]
  /\ UNCHANGED <<adds, call, stores, payments, refunds, intents, rprocs>>

\* ---------------------------------------------------- Stripe webhooks
\* a payment_intent.succeeded handler that also settles the transaction
handlePaymentIntentSucceededSettling(i) ==
  /\ i \in Ids(intents)
  /\ intents[i].status = "succeeded"
  /\ payments[i].status # "captured"
  /\ payments' = SetStatus(payments, i, "captured")
  /\ transactions' = updateTransactionStatus(payments[i].tx, "completed", "none")
  /\ UNCHANGED <<adds, call, stores, refunds, intents, widgetSessions, procs, rprocs>>

\* handlePaymentIntentSucceeded: the provider sends payment_intent.succeeded
\* once the intent is captured; any local status but 'captured' becomes
\* 'captured'
handlePaymentIntentSucceeded(i) ==
  /\ i \in Ids(intents)
  /\ intents[i].status = "succeeded"
  /\ payments[i].status # "captured"
  /\ payments' = SetStatus(payments, i, "captured")
  /\ UNCHANGED <<adds, call, stores, transactions, refunds, intents, widgetSessions, procs, rprocs>>

\* handlePaymentIntentFailed: payment_intent.payment_failed is sent for a
\* declined confirmation and may arrive at any later time; the payment is
\* set to 'failed' whatever its status
handlePaymentIntentFailed(i) ==
  /\ i \in Ids(intents)
  /\ intents[i].declined
  /\ payments[i].status # "failed"
  /\ payments' = SetStatus(payments, i, "failed")
  /\ UNCHANGED <<adds, call, stores, transactions, refunds, intents, widgetSessions, procs, rprocs>>

\* ------------------------------------------------------------ refunds
\* distributeProportionally's Math.round(totalAmount * (portion / totalPortions))
\* for non-negative operands: the nearest integer, a half rounded up
RoundedShare(total, portion, totalPortions) ==
  (2 * total * portion + totalPortions) \div (2 * totalPortions)

\* the reduce that picks largestIndex: the first index holding the largest
\* of the distributed values
LargestIndex(distributed) ==
  CHOOSE m \in DOMAIN distributed :
    /\ \A n \in DOMAIN distributed : distributed[n] <= distributed[m]
    /\ \A n \in DOMAIN distributed : distributed[n] = distributed[m] => m <= n

\* distributeProportionally(totalAmount, portions)
distributeProportionally(totalAmount, portions) ==
  LET totalPortions == SumSeq(portions)
      distributed == [n \in DOMAIN portions |->
                        RoundedShare(totalAmount, portions[n], totalPortions)]
      difference == totalAmount - SumSeq(distributed)
  IN  IF totalPortions = 0 THEN [n \in DOMAIN portions |-> 0]
      ELSE IF difference = 0 \/ portions = <<>> THEN distributed
      ELSE [distributed EXCEPT ![LargestIndex(distributed)] = @ + difference]

\* calculateProportionalRefunds(payments, refundAmount), then the filter that
\* drops the zero-amount splits; pays is the list of payment ids
calculateProportionalRefunds(pays, refundAmount) ==
  LET amounts == [n \in DOMAIN pays |-> payments[pays[n]].amount]
      shares == distributeProportionally(refundAmount, amounts)
      splits == [n \in DOMAIN pays |-> [pay |-> pays[n], amount |-> shares[n]]]
  IN  SelectSeq(splits, LAMBDA s : s.amount > 0)

\* the sum of amount over the refund rows of tx that are 'succeeded'
\* (processRefund's totalRefunded)
TotalRefunded(rows, tx) ==
  SumSeq([n \in DOMAIN rows |->
            IF rows[n].tx = tx /\ rows[n].status = "succeeded" THEN rows[n].amount ELSE 0])

\* provider side: what has been refunded, or is being refunded, of payment i
ProviderRefunded(i) ==
  SumSeq([n \in DOMAIN refunds |->
            IF refunds[n].pay = i /\ refunds[n].pstatus # "failed"
            THEN refunds[n].amount ELSE 0])

\* the record of a refund request that has been answered
FinishedRefund(rp, result) ==
  [IdleRefund EXCEPT !.pc = "done", !.tx = rp.tx, !.amount = rp.amount,
                     !.already = rp.already, !.results = rp.results, !.result = result]

\* POST /api/admin/refund and processRefund up to the loop: the store and the
\* transaction are looked up, the status must be 'completed', the rows
\* 'succeeded' so far are summed, the amount must fit in what remains, and
\* the amount is split over all the payment rows of the transaction
RefundStart(q, tx, amount) ==
  /\ rprocs[q].pc = "idle"
  /\ IF q = 1 THEN TRUE ELSE rprocs[q - 1].pc # "idle"
  /\ tx \in Ids(transactions)
  /\ getStoreByDomain(transactions[tx].store)
  /\ LET pays == getPaymentsByTransactionId(tx)
         already == TotalRefunded(refunds, tx)
         splits == calculateProportionalRefunds(pays, amount)
         accepted == /\ transactions[tx].status = "completed"
                     /\ pays # <<>>
                     /\ amount <= transactions[tx].total - already
                     /\ splits # <<>>
     IN  rprocs' = [rprocs EXCEPT ![q] =
           IF accepted
           THEN [IdleRefund EXCEPT !.pc = "splits", !.tx = tx, !.amount = amount,
                                   !.total = transactions[tx].total,
                                   !.already = already, !.splits = splits, !.j = 1]
           ELSE [IdleRefund EXCEPT !.pc = "done", !.tx = tx, !.amount = amount,
                                   !.result = "rejected"]]
  /\ UNCHANGED <<adds, call, stores, transactions, payments, refunds, intents, widgetSessions, procs>>

\* one iteration of the loop over nonZeroRefunds: a payment that is not
\* 'captured' is passed over without a result; otherwise stripe.refunds.create
\* answers 'succeeded' or 'pending' (the provider accepts a refund of a
\* captured charge up to what is left of it) and createRefund inserts the row,
\* or it throws and the result is 'failed' with no row; with faults the call
\* may also throw for a refund the provider could accept
RefundSplit(q, outcome, faults) ==
  /\ rprocs[q].pc = "splits"
  /\ LET rp == rprocs[q]
         s == rp.splits[rp.j]
         last == rp.j = Len(rp.splits)
         skip == payments[s.pay].status # "captured"
         results == IF skip THEN rp.results ELSE Append(rp.results, outcome)
         accepts == /\ intents[s.pay].status = "succeeded"
                    /\ s.amount <= payments[s.pay].amount - ProviderRefunded(s.pay)
     IN  /\ (~skip /\ outcome # "failed") => accepts
         /\ (~skip /\ outcome = "failed") => (faults \/ ~accepts)
         /\ refunds' = IF skip \/ outcome = "failed" THEN refunds
                       ELSE Append(refunds, [tx |-> rp.tx, pay |-> s.pay, amount |-> s.amount,
                                             status |-> outcome, pstatus |-> outcome])
         /\ rprocs' = [rprocs EXCEPT ![q].results = results,
                                     ![q].j = IF last THEN 0 ELSE rp.j + 1,
                                     ![q].pc = IF last THEN "finish" ELSE "splits"]
  /\ UNCHANGED <<adds, call, stores, transactions, payments, intents, widgetSessions, procs>>

\* "Update transaction status if fully refunded", from the requested amount,
\* and the answer: success when every result is 'succeeded' or 'pending'
RefundFinish(q) ==
  /\ rprocs[q].pc = "finish"
  /\ LET rp == rprocs[q]
         newTotalRefunded == rp.already + rp.amount
         allSucceeded == \A n \in DOMAIN rp.results : rp.results[n] \in {"succeeded", "pending"}
     IN  /\ transactions' =
               IF newTotalRefunded >= rp.total
               THEN updateTransactionStatus(rp.tx, "refunded", "none")
               ELSE IF newTotalRefunded > 0
               THEN updateTransactionStatus(rp.tx, "partially_refunded", "none")
               ELSE transactions
         /\ rprocs' = [rprocs EXCEPT ![q] =
               FinishedRefund(rp, IF allSucceeded THEN "success" ELSE "partial")]
  /\ UNCHANGED <<adds, call, stores, payments, refunds, intents, widgetSessions, procs>>

\* provider side: a refund answered 'pending' settles or fails later
RefundSettles(r, ok) ==
  /\ r \in Ids(refunds)
  /\ refunds[r].pstatus = "pending"
  /\ refunds' = [refunds EXCEPT ![r].pstatus = IF ok THEN "succeeded" ELSE "failed"]
  /\ UNCHANGED <<adds, call, stores, transactions, payments, intents, widgetSessions, procs, rprocs>>

\* handleChargeRefunded: the refund row found by the provider's refund id
\* gets 'succeeded' when the event says so and 'pending' otherwise
handleChargeRefunded(r) ==
  /\ r \in Ids(refunds)
  /\ refunds[r].pstatus \in {"succeeded", "pending"}
  /\ refunds[r].status # refunds[r].pstatus
  /\ refunds' = [refunds EXCEPT ![r].status =
                   IF refunds[r].pstatus = "succeeded" THEN "succeeded" ELSE "pending"]
  /\ UNCHANGED <<adds, call, stores, transactions, payments, intents, widgetSessions, procs, rprocs>>

\* the statuses a refund has at the provider
RefundStatuses == {"pending", "succeeded", "failed"}

\* handleChargeRefunded on an event whose payload reports the given status:
\* the row found by the provider's refund id is set to 'succeeded' when the
\* payload says 'succeeded' and to 'pending' for anything else
handleChargeRefundedWith(r, status) ==
  /\ r \in Ids(refunds)
  /\ refunds' = [refunds EXCEPT ![r].status =
                   IF status = "succeeded" THEN "succeeded" ELSE "pending"]
  /\ UNCHANGED <<adds, call, stores, transactions, payments, intents, widgetSessions, procs, rprocs>>

\* the events the provider has sent for refund r and that can still arrive:
\* deliveries are not ordered, so besides the refund's present status an
\* earlier 'pending' can be reported (every refund of RefundEventStep's
\* specification starts 'pending')
Deliverable(r) ==
  IF r \in Ids(refunds) THEN {"pending", refunds[r].pstatus} ELSE {}

\* -------------------------------------------- inbound webhook requests
\* validateShopifyWebhook: the request goes on to the handler only when the
\* x-shopify-hmac-sha256 header is there and equals the HMAC of the body;
\* otherwise 401 (signed: the sender holds the app secret)
validateShopifyWebhook(signed) == signed

\* validateStripeWebhook: stripe.webhooks.constructEvent accepts the request
\* only with a stripe-signature made with the webhook secret; otherwise 401
validateStripeWebhook(signed) == signed

\* POST /api/webhooks/shopify with topic app/uninstalled
ShopifyWebhook(shop, signed) ==
  /\ validateShopifyWebhook(signed)
  /\ handleAppUninstalled(shop)

\* POST /api/webhooks/gdpr/shop/redact: the route has no signature
\* middleware; uninstallStore runs for the shop_domain of the body
gdprShopRedact(shop, signed) ==
  /\ stores[shop].exists /\ stores[shop].is_active
  /\ stores' = [stores EXCEPT ![shop].is_active = FALSE]
  /\ UNCHANGED <<adds, call, transactions, payments, refunds, intents, widgetSessions, procs, rprocs>>

\* POST /api/stripe/webhook with payment_intent.succeeded or
\* payment_intent.payment_failed for intent i
StripeWebhook(i, signed) ==
  /\ validateStripeWebhook(signed)
  /\ handlePaymentIntentSucceeded(i) \/ handlePaymentIntentFailed(i)

\* ------------------------------------------------- utility functions
\* the tables and requests of a process that has served nothing yet
NothingServed ==
  /\ stores = SeededStores
  /\ transactions = <<>>
  /\ payments = <<>>
  /\ refunds = <<>>
  /\ intents = <<>>
  /\ widgetSessions = <<>>
  /\ procs = [p \in 1..MaxCompletes |-> IdleProc]
  /\ rprocs = [q \in 1..MaxRefundOps |-> IdleRefund]
  /\ adds = [a \in 1..MaxAdds |-> IdleAdd]

\* the arguments of a call distributeProportionally(totalAmount, portions):
\* an amount and a non-empty list of non-negative portions
InitDistribute ==
  /\ NothingServed
  /\ call \in {[fn |-> "distributeProportionally", totalAmount |-> t, portions |-> w,
                returned |-> FALSE, result |-> <<>>] :
                 t \in 0..MaxTotal, w \in SeqsUpTo(0..MaxPortion, MaxPortions)}

\* the call returns
Distribute ==
  /\ call.fn = "distributeProportionally"
  /\ ~call.returned
  /\ call' = [call EXCEPT !.returned = TRUE,
                          !.result = distributeProportionally(call.totalAmount, call.portions)]
  /\ UNCHANGED <<adds, stores, transactions, payments, refunds, intents, widgetSessions, procs,
               rprocs>>

\* nonZeroRefunds: the splits handed to stripe.refunds.create, i.e. the
\* shares of the requested amount that are > 0
nonZeroRefunds(shares) == SelectSeq(shares, LAMBDA x : x > 0)

\* --------------------------------------------------------------- Next
\* the app is uninstalled from and installed again on the given shops
StoreStep(shops) ==
  \/ \E shop \in shops : Install(shop)
  \/ \E shop \in shops : handleAppUninstalled(shop)

\* the admin changes the maxCards setting of an installed shop
SettingsStep ==
  \E shop \in Shops, maxCards \in MaxCardsChoices : updateStoreSettings(shop, maxCards)

\* POST /init and POST /create-payment-intent, for the given checkout tokens,
\* session ids and payment ids
CardStep(tokens, sids, pids) ==
  \/ \E shop \in Shops, token \in tokens, sid \in sids : InitSession(shop, token, sid)
  \/ \E sid \in sids, amount \in CardAmounts, pid \in pids : AddCard(sid, amount, pid)

\* ... and POST /remove-payment
WidgetStep(tokens, sids, pids) ==
  \/ CardStep(tokens, sids, pids)
  \/ \E sid \in sids, i \in pids, ok \in BOOLEAN : RemoveCard(sid, i, ok)

\* what a complete-checkout request of session sid may carry: any list of
\* known payment-intent ids ("any"), the session's own list, as the widget
\* sends it ("session"), any two different cards of the session ("pairs"),
\* or any list of up to MaxListLen known ids ("long")
Lists(mode, sid) ==
  IF sid \notin Ids(widgetSessions) THEN {}
  ELSE IF mode = "any" THEN SubmittedLists
  ELSE IF mode = "long" THEN SeqsUpTo(Ids(payments), MaxListLen)
  ELSE IF mode = "session" THEN {widgetSessions[sid].payments}
  ELSE {<<a, b>> : a \in Range(widgetSessions[sid].payments),
                   b \in Range(widgetSessions[sid].payments)} \ {<<a, a>> : a \in Ids(payments)}

\* no complete-checkout request is between its first write and its answer
NoneCompleting == \A p \in DOMAIN procs : procs[p].pc \in {"idle", "done"}

\* no refund request is between its checks and its answer
NoneRefunding == \A q \in DOMAIN rprocs : rprocs[q].pc \in {"idle", "done"}

\* the steps of the complete-checkout requests ps up to the answer, without
\* the compensation of a failed authorization: the requests carry lists of
\* Lists(mode, sid), the provider's calls may fail for no reason of the
\* model's when faults is set, and a request may start while another is in
\* flight when overlap is set
CheckoutStep(ps, mode, faults, overlap) ==
  \E p \in ps :
    \/ \E sid \in 1..OneSession : \E list \in Lists(mode, sid) :
          (overlap \/ NoneCompleting) /\ CompleteStart(p, sid, list)
    \/ \E k \in 1..MaxPayments, ok \in BOOLEAN : AuthTask(p, k, ok, faults)
    \/ AuthLoopStep(p)
    \/ \E k \in 1..MaxPayments, ok \in BOOLEAN : CaptureTask(p, k, ok, faults)
    \/ CapLoopStep(p)
    \/ \E ok \in BOOLEAN : VoidFailedStep(p, ok)
    \/ TxCapFailed(p)
    \/ CatchFailed(p)
    \/ TxCompleted(p)
    \/ \E ok \in BOOLEAN : CreateOrder(p, ok)

\* the compensation of a failed authorization
CompensateStep(ps) ==
  \E p \in ps :
    \/ \E k \in 1..MaxPayments, ok \in BOOLEAN : CancelTask(p, k, ok)
    \/ VoidStep(p)
    \/ TxFailed(p)

\* every step of the complete-checkout requests ps
CompleteStep(ps, mode) ==
  \/ CheckoutStep(ps, mode, TRUE, TRUE)
  \/ CompensateStep(ps)

WebhookStep ==
  \/ \E i \in 1..MaxPayments : handlePaymentIntentSucceeded(i)
  \/ \E i \in 1..MaxPayments : handlePaymentIntentFailed(i)

\* the transactions an admin finds to refund: those whose checkout went through
Refundable ==
  {tx \in Ids(transactions) :
     transactions[tx].status \in {"completed", "partially_refunded", "refunded"}}

\* the steps of the refund requests qs for the given amounts and provider
\* answers (with or without faults); a request may start while another is in
\* flight when overlap is set
RefundStep(qs, amounts, outcomes, faults, overlap) ==
  \E q \in qs :
    \/ \E tx \in 1..MaxTx, amount \in amounts :
          tx \in Refundable /\ (overlap \/ NoneRefunding) /\ RefundStart(q, tx, amount)
    \/ \E outcome \in outcomes : RefundSplit(q, outcome, faults)
    \/ RefundFinish(q)

RefundWebhookStep ==
  \/ \E r \in 1..MaxRefundRows, ok \in BOOLEAN : RefundSettles(r, ok)
  \/ \E r \in 1..MaxRefundRows : handleChargeRefunded(r)

\* One buyer session, on the checkout that has its total or on a new
\* checkout token: up to MaxPayments cards, one complete-checkout request
\* carrying any list, and the provider's payment webhooks.
Next ==
  \/ WidgetStep(Tokens, 1..OneSession, 1..MaxPayments)
  \/ CompleteStep(1..OneComplete, "any")
  \/ WebhookStep

Spec == Init /\ [][Next]_vars

\* Repeated and overlapping complete-checkout requests of one session with
\* two cards, each carrying the session's list.
NextRetry ==
  \/ WidgetStep({"tokA"}, 1..OneSession, 1..TwoPayments)
  \/ CompleteStep(1..MaxCompletes, "session")
  \/ WebhookStep

SpecRetry == Init /\ [][NextRetry]_vars

\* Refund requests, one after the other, after one checkout.
NextRefund ==
  \/ WidgetStep({"tokA"}, 1..OneSession, 1..MaxPayments)
  \/ CompleteStep(1..OneComplete, "session")
  \/ RefundStep(1..MaxRefundOps, RefundAmounts, {"succeeded", "pending", "failed"}, TRUE, FALSE)
  \/ RefundWebhookStep

SpecRefund == Init /\ [][NextRefund]_vars

\* Overlapping refund requests around a second checkout of the session with
\* another pair of its cards, against a provider that answers every call as
\* the state of the intent allows.
NextOverRefund ==
  \/ CardStep({"tokA"}, 1..OneSession, 1..MaxPayments)
  \/ CheckoutStep(1..MaxCompletes, "pairs", FALSE, FALSE)
  \/ RefundStep(1..MaxRefundOps, OverlapAmounts, {"succeeded", "failed"}, FALSE, TRUE)

SpecOverRefund == Init /\ [][NextOverRefund]_vars

\* A second init on the checkout of the first session, around one
\* complete-checkout request, while the app is uninstalled from and installed
\* again on the shop.
NextInit ==
  \/ WidgetStep(Tokens, 1..TwoSessions, 1..TwoPayments)
  \/ CompleteStep(1..OneComplete, "session")
  \/ StoreStep({"shop1"})

SpecInit == Init /\ [][NextInit]_vars

\* One session adding and removing cards while the admin changes the
\* store's maxCards setting.
NextSettings ==
  \/ WidgetStep(Tokens, 1..OneSession, 1..MaxPayments)
  \/ SettingsStep

SpecSettings == Init /\ [][NextSettings]_vars

\* One session and one complete-checkout request while time passes.
NextExpiry ==
  \/ WidgetStep({"tokA"}, 1..OneSession, 1..TwoPayments)
  \/ CompleteStep(1..OneComplete, "session")
  \/ Tick

SpecExpiry == Init /\ [][NextExpiry]_vars

\* One session, its cards added and removed, one complete-checkout request
\* and the provider's webhook feed; the server does not stop while a request
\* or a webhook delivery is pending.
NextRemove ==
  \/ WidgetStep({"tokA"}, 1..OneSession, 1..MaxPayments)
  \/ CompleteStep(1..OneComplete, "session")
  \/ WebhookStep

SpecRemove == Init /\ [][NextRemove]_vars /\ WF_vars(NextRemove)

\* One session whose cards are removed only while no complete-checkout
\* request is in flight, and one request carrying any list of known ids.
NextRemoved ==
  \/ CardStep({"tokA"}, 1..OneSession, 1..MaxPayments)
  \/ \E sid \in 1..OneSession, i \in 1..MaxPayments, ok \in BOOLEAN :
        NoneCompleting /\ RemoveCard(sid, i, ok)
  \/ CompleteStep(1..OneComplete, "any")

SpecRemoved == Init /\ [][NextRemoved]_vars

\* Add-card requests of one session that overlap: each is between its count
\* check and its push while others run.
NextAddCards ==
  \/ \E shop \in Shops : InitSession(shop, "tokA", 1)
  \/ \E a \in 1..MaxAdds, sid \in 1..OneSession, amount \in CardAmounts :
        AddCardBegin(a, sid, amount)
  \/ \E a \in 1..MaxAdds : AddCardPush(a)

SpecAddCards == Init /\ [][NextAddCards]_vars

\* Two shops with the app installed, whose widgets present checkout tokens
\* from the same set.
NextStores ==
  \/ StoreStep(Shops)
  \/ CardStep(Tokens, 1..TwoSessions, 1..TwoPayments)

SpecStores == Init /\ [][NextStores]_vars

\* Refund requests whose splits the provider answers 'pending' (or refuses),
\* the refunds settling later, and the charge.refunded events of those
\* refunds arriving in any order.
RefundEventStep ==
  \/ \E r \in 1..MaxRefundRows, ok \in BOOLEAN : RefundSettles(r, ok)
  \/ \E r \in 1..MaxRefundRows, status \in RefundStatuses :
        status \in Deliverable(r) /\ handleChargeRefundedWith(r, status)

NextRefundEvents ==
  \/ WidgetStep({"tokA"}, 1..OneSession, 1..TwoPayments)
  \/ CompleteStep(1..OneComplete, "session")
  \/ RefundStep(1..OneRefund, RefundAmounts, {"pending", "failed"}, TRUE, FALSE)
  \/ RefundEventStep

SpecRefundEvents == Init /\ [][NextRefundEvents]_vars

\* Webhook requests with and without a valid signature, on both feeds,
\* around one checkout.
NextWebhooks ==
  \/ WidgetStep({"tokA"}, 1..OneSession, 1..TwoPayments)
  \/ CompleteStep(1..OneComplete, "session")
  \/ \E shop \in Shops : Install(shop)
  \/ \E shop \in Shops, signed \in BOOLEAN : ShopifyWebhook(shop, signed)
  \/ \E shop \in Shops, signed \in BOOLEAN : gdprShopRedact(shop, signed)
  \/ \E i \in 1..TwoPayments, signed \in BOOLEAN : StripeWebhook(i, signed)

SpecWebhooks == Init /\ [][NextWebhooks]_vars

\* Widget requests that carry bad data: amounts below the minimum, lists too
\* short, too long or not adding up.
NextValidation ==
  \/ \E shop \in Shops, token \in Tokens, sid \in 1..OneSession : InitSession(shop, token, sid)
  \/ \E sid \in 1..OneSession, amount \in RequestAmounts, pid \in 1..TwoPayments :
        AddCard(sid, amount, pid)
  \/ CompleteStep(1..OneComplete, "long")

SpecValidation == Init /\ [][NextValidation]_vars

\* distributeProportionally on its own, over every amount up to MaxTotal and
\* every list of up to MaxPortions portions of at most MaxPortion.
NextDistribute == Distribute

SpecDistribute == InitDistribute /\ [][NextDistribute]_vars

\* ------------------------------------------------------------- claims
\* the payment rows of a transaction, and what is captured of it
PaymentsOf(tx) == {i \in Ids(payments) : payments[i].tx = tx}

CapturedSum(tx) ==
  SumSeq([i \in Ids(payments) |->
            IF payments[i].tx = tx /\ payments[i].status = "captured"
            THEN payments[i].amount ELSE 0])

\* C1: all-or-nothing capture.  Once a complete-checkout request has been
\* answered with a failure (an authorization or a capture failed, so the
\* transaction went to 'processing' and did not reach 'completed'), no payment
\* of its transaction is 'captured'.
C1_AllOrNothing ==
  \A p \in DOMAIN procs :
    (procs[p].pc = "done" /\ procs[p].result \in {"auth_failed", "capture_failed"}) =>
       \A i \in PaymentsOf(procs[p].tx) : payments[i].status # "captured"

\* C2: a transaction whose status is 'completed' has the sum of amount over
\* its 'captured' payments equal to its total_amount.
C2_CapturedEqualsTotal ==
  \A tx \in Ids(transactions) :
    transactions[tx].status = "completed" => CapturedSum(tx) = transactions[tx].total

\* C3: a transaction in status 'completed' has at least 2 payment rows and
\* every payment row of it is 'captured'.
C3_CompletedAllCaptured ==
  \A tx \in Ids(transactions) :
    transactions[tx].status = "completed" =>
       /\ Cardinality(PaymentsOf(tx)) >= MIN_CARDS
       /\ \A i \in PaymentsOf(tx) : payments[i].status = "captured"

\* C4: when an authorization of a complete-checkout request failed, then once
\* the request is answered every payment of the call whose authorization
\* succeeded is 'voided', wherever it stands in the submitted list, and the
\* transaction is 'failed'.
C4_VoidAllAuthorized ==
  \A p \in DOMAIN procs :
    (procs[p].pc = "done" /\ procs[p].result = "auth_failed") =>
       /\ transactions[procs[p].tx].status = "failed"
       /\ \A k \in DOMAIN procs[p].list :
            procs[p].authRes[k] = "ok" => payments[procs[p].list[k]].status = "voided"

\* C5: a complete-checkout request that finds its transaction 'processing'
\* is rejected: it does not go on to the authorize / capture phases.
C5_SecondCompleteRejected ==
  \A p \in DOMAIN procs :
    procs[p].saw = "processing" => (procs[p].pc = "done" /\ procs[p].result = "rejected")

\* C6: every change of a payment's status is one of pending -> authorized,
\* authorized -> captured, authorized -> voided, pending -> failed.
C6_PaymentNeverRegresses ==
  [][\A i \in Ids(payments) :
       payments'[i].status # payments[i].status =>
          <<payments[i].status, payments'[i].status>> \in
             {<<"pending", "authorized">>, <<"authorized", "captured">>,
              <<"authorized", "voided">>, <<"pending", "failed">>}]_vars

\* C7: every change of a transaction's status is one of pending -> processing,
\* processing -> completed, processing -> failed, completed ->
\* partially_refunded, completed -> refunded, partially_refunded -> refunded.
C7_TransactionMoves ==
  [][\A tx \in Ids(transactions) :
       transactions'[tx].status # transactions[tx].status =>
          <<transactions[tx].status, transactions'[tx].status>> \in
             {<<"pending", "processing">>, <<"processing", "completed">>,
              <<"processing", "failed">>, <<"completed", "partially_refunded">>,
              <<"completed", "refunded">>, <<"partially_refunded", "refunded">>}]_vars

\* C8: scenario S1.  After init, add_card(10000) and add_card(5000), a
\* complete-checkout request that carried the session's two cards, and in
\* which no provider or platform call failed, is answered with success: the
\* transaction is 'completed' with an order, exactly those two payments are
\* 'captured', and the session is deleted.
C8_ScenarioS1 ==
  \A p \in DOMAIN procs :
    ( /\ procs[p].pc = "done"
      /\ procs[p].exact
      /\ procs[p].list = <<1, 2>>
      /\ [i \in Ids(payments) |-> payments[i].amount] = <<10000, 5000>>
      /\ procs[p].result \notin {"auth_failed", "capture_failed", "order_failed"} ) =>
       /\ procs[p].result = "ok"
       /\ transactions[procs[p].tx].status = "completed"
       /\ transactions[procs[p].tx].order
       /\ {i \in PaymentsOf(procs[p].tx) : payments[i].status = "captured"} = Range(procs[p].list)
       /\ ~widgetSessions[procs[p].sid].live

\* C9: for every transaction the sum of amount over its 'succeeded' refund
\* rows is at most its total_amount.
C9_RefundsWithinTotal ==
  \A tx \in Ids(transactions) : TotalRefunded(refunds, tx) <= transactions[tx].total

\* C10: when a refund request of amount r is answered with success, the sum
\* of amount over the transaction's 'succeeded' refund rows is what it was
\* when the request was checked (already_refunded) plus r.
C10_RefundAddsUp ==
  [][\A q \in DOMAIN rprocs :
       (rprocs[q].pc = "finish" /\ rprocs'[q].result = "success") =>
          TotalRefunded(refunds', rprocs[q].tx) = rprocs[q].already + rprocs[q].amount]_vars

\* C11: a refund request is accepted exactly when its transaction is
\* 'completed' or 'partially_refunded' and the amount fits in what remains
\* (total_amount less the 'succeeded' refund rows); so a second refund within
\* the remainder after a first partial refund is processed, not rejected.
C11_RefundWhenPartiallyRefunded ==
  [][\A q \in DOMAIN rprocs :
       (rprocs[q].pc = "idle" /\ rprocs'[q].pc # "idle") =>
          LET tx == rprocs'[q].tx
              fits == rprocs'[q].amount <= transactions[tx].total - TotalRefunded(refunds, tx)
          IN  (rprocs'[q].result # "rejected") <=>
                 (transactions[tx].status \in {"completed", "partially_refunded"} /\ fits)]_vars

\* C12: for every amount >= 0 and every non-empty list of non-negative
\* portions whose sum is positive, distributeProportionally returns a list of
\* the same length, of elements >= 0, whose sum is the amount.
C12_DistributeSumAndSign ==
  (call.fn = "distributeProportionally" /\ call.returned /\ SumSeq(call.portions) > 0) =>
     /\ Len(call.result) = Len(call.portions)
     /\ \A n \in DOMAIN call.result : call.result[n] >= 0
     /\ SumSeq(call.result) = call.totalAmount

\* C13: distributeProportionally(total, weights) is the reference split:
\* a_i = round(total * w_i / W) for each i, then the difference total - sum(a)
\* is added at the first index holding the largest weight; when the weights
\* sum to 0 or total is 0 the result is all zeros.
C13_DistributeIsReference ==
  (call.fn = "distributeProportionally" /\ call.returned) =>
     LET w == call.portions
         total == call.totalAmount
         W == SumSeq(w)
         a == [n \in DOMAIN w |-> (2 * total * w[n] + W) \div (2 * W)]
         first == CHOOSE m \in DOMAIN w :
                    /\ \A n \in DOMAIN w : w[n] <= w[m]
                    /\ \A n \in DOMAIN w : w[n] = w[m] => m <= n
     IN  call.result = IF W = 0 \/ total = 0 THEN [n \in DOMAIN w |-> 0]
                       ELSE [a EXCEPT ![first] = @ + (total - SumSeq(a))]

\* C14: when the order creation of a complete-checkout request failed after
\* all its captures succeeded, the transaction is still 'completed' and the
\* payments the request captured are still 'captured' (the failure undoes
\* nothing), as long as no other complete-checkout request has been made.
C14_OrderFailureKeepsCompleted ==
  \A p \in DOMAIN procs :
    ( /\ procs[p].pc = "done" /\ procs[p].result = "order_failed"
      /\ \A r \in DOMAIN procs \ {p} : procs[r].pc = "idle" ) =>
       /\ transactions[procs[p].tx].status = "completed"
       /\ \A k \in DOMAIN procs[p].list : payments[procs[p].list[k]].status = "captured"

\* a request whose order creation failed after capture-all
C14_Witness ==
  \E p \in DOMAIN procs :
    /\ procs[p].pc = "done" /\ procs[p].result = "order_failed"
    /\ \A k \in DOMAIN procs[p].authRes : procs[p].authRes[k] = "ok"
    /\ ~transactions[procs[p].tx].order

\* C15: a transaction in status 'completed' has its order assigned, or a
\* request is at the order creation for it (after its captures, before its
\* answer): it is not left 'completed' without an order and without anyone
\* creating one.
C15_CompletedHasOrder ==
  \A tx \in Ids(transactions) :
    transactions[tx].status = "completed" =>
       \/ transactions[tx].order
       \/ \E p \in DOMAIN procs : procs[p].tx = tx /\ procs[p].pc = "order"

\* C16: a complete-checkout request goes past its checks (the transaction is
\* set 'processing') only when the submitted list holds exactly the session's
\* payments, each once, the amounts sum to the transaction's total_amount and
\* the list has 2 to 5 entries; any other request is rejected.
C16_CompleteChecksList ==
  \A p \in DOMAIN procs :
    (procs[p].pc # "idle" /\ procs[p].result # "rejected") =>
       /\ procs[p].exact
       /\ SumSeq([k \in DOMAIN procs[p].list |-> payments[procs[p].list[k]].amount])
             = transactions[procs[p].tx].total
       /\ Len(procs[p].list) \in MIN_CARDS..MAX_CARDS

\* C17: an init that creates a session finds no 'completed' transaction for
\* its store and checkout token (such an init is rejected with
\* already_completed), and the session is bound to the newest 'pending'
\* transaction of that store and token, or to a transaction created by this
\* init when there is none.
C17_InitRejectsCompleted ==
  [][Len(widgetSessions') > Len(widgetSessions) =>
       LET s == widgetSessions'[Len(widgetSessions')]
           same == {t \in Ids(transactions) :
                      transactions[t].store = s.shop /\ transactions[t].token = s.token}
           pending == {t \in same : transactions[t].status = "pending"}
       IN  /\ \A t \in same : transactions[t].status # "completed"
           /\ IF pending # {}
              THEN s.tx \in pending /\ \A t \in pending : t <= s.tx
              ELSE s.tx = Len(transactions) + 1 /\ Len(transactions') = Len(transactions) + 1]_vars

\* C18: no session and no transaction is created by an init whose shop has
\* no store row or an inactive one (so after app/uninstalled every init of
\* the shop is rejected), and an init of a shop whose store is active, as it
\* is again after a reinstall, goes through.
C18_InitNeedsActiveStore ==
  /\ [][(Len(widgetSessions') > Len(widgetSessions) \/ Len(transactions') > Len(transactions)) =>
          /\ Len(widgetSessions') = Len(widgetSessions) + 1
          /\ LET s == widgetSessions'[Len(widgetSessions')]
             IN  /\ stores[s.shop].exists /\ stores[s.shop].is_active
                 /\ Len(transactions') > Len(transactions) =>
                       transactions'[Len(transactions')].store = s.shop]_vars
  /\ [](\A shop \in Shops, token \in Tokens :
          (getTransactionByCheckoutToken(token) # 0 \/ Len(transactions) < MaxTx) =>
             ((ENABLED InitSession(shop, token, Len(widgetSessions) + 1))
                <=> (stores[shop].exists /\ stores[shop].is_active)))

\* the app was uninstalled and installed again, and inits went through
C18_Witness ==
  /\ stores["shop1"].is_active /\ stores["shop1"].access_token = 2
  /\ Len(widgetSessions) = 2
  /\ \E t \in Ids(transactions) : transactions[t].token = "tokB"

\* C19: a card is added to a session only while the session holds fewer
\* payments than min(5, the store's max_cards setting); a store set to
\* max_cards = 2 gets no third payment in a session.
C19_MaxCardsSetting ==
  [][\A sid \in Ids(widgetSessions) :
       Len(widgetSessions'[sid].payments) > Len(widgetSessions[sid].payments) =>
          LET setting == stores[widgetSessions[sid].shop].maxCards
              limit == IF setting # 0 /\ setting < 5 THEN setting ELSE 5
          IN  Len(widgetSessions[sid].payments) < limit]_vars

\* C20: the amounts of the payments a session holds never sum to more than
\* the total_amount of its transaction (a card whose amount exceeds the
\* remaining balance is not added).
C20_WithinRemainingBalance ==
  \A sid \in Ids(widgetSessions) :
    widgetSessions[sid].live =>
       SumSeq([k \in DOMAIN widgetSessions[sid].payments |->
                 payments[widgetSessions[sid].payments[k]].amount])
          <= transactions[widgetSessions[sid].tx].total

C22_SessionExpires ==
  [][\A sid \in Ids(widgetSessions) :
       widgetSessions[sid].age >= 1 =>
          /\ Range(widgetSessions[sid].payments) \subseteq Range(widgetSessions'[sid].payments)
                \/ ~widgetSessions'[sid].live
          /\ Len(widgetSessions'[sid].payments) <= Len(widgetSessions[sid].payments)
          /\ \A p \in DOMAIN procs :
               (procs[p].pc = "idle" /\ procs'[p].pc # "idle") => procs'[p].sid # sid]_vars

\* C23: on the platform feed (the GDPR redact endpoints included) and on the
\* provider feed, a webhook request without a valid signature changes no
\* store, transaction, payment or refund row.
C23_UnsignedWebhookChangesNothing ==
  [][( \/ \E shop \in Shops : ShopifyWebhook(shop, FALSE)
       \/ \E shop \in Shops : gdprShopRedact(shop, FALSE)
       \/ \E i \in 1..TwoPayments : StripeWebhook(i, FALSE) ) =>
        UNCHANGED <<stores, transactions, payments, refunds>>]_vars

\* C24: webhook race S6.  With payment_intent.succeeded webhooks arriving
\* during or after the capture phase of the one complete-checkout request,
\* every payment the request has marked 'captured' is 'captured', and the
\* transaction has the status the request gave it: 'processing' until all
\* captures are recorded, 'completed' from then on.
C24_SucceededWebhookRace ==
  \A p \in DOMAIN procs :
    (\A r \in DOMAIN procs \ {p} : procs[r].pc = "idle") =>
       /\ procs[p].pc = "capLoop" =>
            /\ transactions[procs[p].tx].status = "processing"
            /\ \A k \in 1..(procs[p].i - 1) :
                 procs[p].capRes[k] = "ok" => payments[procs[p].authorized[k]].status = "captured"
       /\ procs[p].pc = "txCompleted" =>
            /\ transactions[procs[p].tx].status = "processing"
            /\ \A k \in DOMAIN procs[p].list : payments[procs[p].list[k]].status = "captured"
       /\ (procs[p].pc = "order" \/ (procs[p].pc = "done" /\ procs[p].result \in {"ok", "order_failed"})) =>
            /\ transactions[procs[p].tx].status = "completed"
            /\ \A k \in DOMAIN procs[p].list : payments[procs[p].list[k]].status = "captured"

\* the webhook has marked a payment 'captured' before the request's own loop
\* over the capture results came to it
C24_Witness ==
  \E p \in DOMAIN procs :
    /\ procs[p].pc = "capLoop" /\ procs[p].i = 1
    /\ \E k \in DOMAIN procs[p].capRes : payments[procs[p].authorized[k]].status = "captured"

\* C25: when the loop over the splits of a refund request is over, there is
\* one result per non-zero split (a failed split did not stop the others),
\* and every split the provider failed has a refund row of status 'failed'
\* for its payment.
C25_FailedSplitHasRow ==
  \A q \in DOMAIN rprocs :
    rprocs[q].pc = "finish" =>
       /\ Len(rprocs[q].results) = Len(rprocs[q].splits)
       /\ \A n \in DOMAIN rprocs[q].results :
            rprocs[q].results[n] = "failed" =>
               \E r \in Ids(refunds) :
                 /\ refunds[r].tx = rprocs[q].tx
                 /\ refunds[r].pay = rprocs[q].splits[n].pay
                 /\ refunds[r].status = "failed"

\* C26: a request rejected for validation reasons changes nothing.  A
\* complete-checkout request is rejected exactly when its list has fewer than
\* 2 or more than 5 entries, holds an amount below the minimum, or does not
\* sum to the transaction's total, and then no transaction, payment, intent
\* or session is touched; and no intent, payment row or session entry is ever
\* created for an amount below the minimum.
C26_ValidationChangesNothing ==
  /\ [][\A p \in DOMAIN procs :
          (procs[p].pc = "idle" /\ procs'[p].pc # "idle") =>
             LET list == procs'[p].list
                 amounts == [k \in DOMAIN list |-> payments[list[k]].amount]
                 bad == \/ Len(list) < 2 \/ Len(list) > 5
                        \/ \E k \in DOMAIN list : amounts[k] < 100
                        \/ SumSeq(amounts) # transactions[procs'[p].tx].total
             IN  /\ bad <=> (procs'[p].pc = "done" /\ procs'[p].result = "rejected")
                 /\ bad => UNCHANGED <<stores, transactions, payments, refunds,
                                       intents, widgetSessions>>]_vars
  /\ [][/\ Len(payments') > Len(payments) => payments'[Len(payments')].amount >= 100
        /\ Len(intents') > Len(intents) => Len(payments') > Len(payments)
        /\ \A sid \in Ids(widgetSessions) :
             Len(widgetSessions'[sid].payments) > Len(widgetSessions[sid].payments) =>
                Len(payments') > Len(payments)]_vars

\* a request with more than 5 entries, adding up to the total, was rejected
\* and the transaction is still 'pending' with its payments 'pending'
C26_Witness ==
  \E p \in DOMAIN procs :
    /\ procs[p].pc = "done" /\ procs[p].result = "rejected"
    /\ Len(procs[p].list) > MAX_CARDS
    /\ SumSeq([k \in DOMAIN procs[p].list |-> payments[procs[p].list[k]].amount])
          = transactions[procs[p].tx].total
    /\ transactions[procs[p].tx].status = "pending"
    /\ \A k \in DOMAIN procs[p].list : payments[procs[p].list[k]].status = "pending"

\* C27: handling an app/uninstalled webhook leaves the store inactive with
\* its access token cleared, and changes no transaction, payment or refund
\* row.
C27_UninstallClearsToken ==
  [][\A shop \in Shops :
       handleAppUninstalled(shop) =>
          /\ ~stores'[shop].is_active
          /\ stores'[shop].access_token = 0
          /\ UNCHANGED <<transactions, payments, refunds>>]_vars

\* the card of payment row i was taken out of its session by remove-payment
RemovedFromSession(i) ==
  /\ i \in Ids(payments)
  /\ \A sid \in Ids(widgetSessions) : i \notin Range(widgetSessions[sid].payments)

\* C28: after remove-payment the payment row of the removed intent remains,
\* and its status is eventually updated to 'voided'.
C28_RemovedEventuallyVoided ==
  /\ [][\A sid \in 1..OneSession, i \in 1..MaxPayments, ok \in BOOLEAN :
          RemoveCard(sid, i, ok) =>
            /\ Len(payments') = Len(payments)
            /\ payments'[i].amount = payments[i].amount]_vars
  /\ \A i \in 1..MaxPayments :
       RemovedFromSession(i) ~> (i \in Ids(payments) /\ payments[i].status = "voided")

\* C29: within one complete-checkout call no capture is issued before every
\* authorization task of that call has settled with success, and a call in
\* which an authorization failed issues no capture at all.
C29_CaptureAfterAllAuthorized ==
  /\ [][\A p \in 1..MaxCompletes, k \in 1..MaxPayments, ok \in BOOLEAN :
          CaptureTask(p, k, ok, TRUE) =>
            /\ Len(procs[p].authRes) = Len(procs[p].list)
            /\ \A j \in DOMAIN procs[p].list : procs[p].authRes[j] = "ok"]_vars
  /\ [](\A p \in 1..MaxCompletes :
          (\E j \in DOMAIN procs[p].authRes : procs[p].authRes[j] # "ok") =>
            \A k \in DOMAIN procs[p].capRes : procs[p].capRes[k] = "none")

\* a call over two or more cards has issued a capture while other captures of
\* the same call are still to be issued
C29_Witness ==
  \E p \in 1..MaxCompletes :
    /\ procs[p].pc = "capture"
    /\ Len(procs[p].list) >= 2
    /\ \E k \in DOMAIN procs[p].capRes : procs[p].capRes[k] # "none"

\* every authorization task of call p has settled
AuthSettled(p) ==
  /\ Len(procs[p].authRes) = Len(procs[p].list)
  /\ AllSettled(procs[p].authRes)

C31_RemovedNeverCaptured ==
  [][\A p \in 1..OneComplete, k \in 1..MaxPayments :
       CaptureTask(p, k, TRUE, TRUE) => ~RemovedFromSession(procs[p].authorized[k])]_vars

\* C32: under any interleaving of concurrent add-card requests on the same
\* session, the session never holds more than 5 payments.
C32_AtMostFiveCards ==
  \A sid \in Ids(widgetSessions) : Len(widgetSessions[sid].payments) <= MAX_CARDS

\* C33: in a single refund the amounts sent to the provider add up to at most
\* the requested amount, and no split amount is negative, for every requested
\* amount >= 1 (within the total paid) and every 2..5 captured payment amounts.
C33_RefundSplitsWithinRequest ==
  ( /\ call.fn = "distributeProportionally" /\ call.returned
    /\ Len(call.portions) \in MIN_CARDS..MAX_CARDS
    /\ \A n \in DOMAIN call.portions : call.portions[n] > 0
    /\ call.totalAmount >= 1
    /\ call.totalAmount <= SumSeq(call.portions) ) =>
     /\ \A n \in DOMAIN call.result : call.result[n] >= 0
     /\ SumSeq(nonZeroRefunds(call.result)) <= call.totalAmount

\* C34: the compensation of a complete-checkout call marks a payment 'voided'
\* only if the provider's cancel of its intent succeeded (or found the intent
\* already final); when the cancel call failed the payment is not marked.
C34_VoidedOnlyIfCancelled ==
  [][\A p \in 1..MaxCompletes :
       VoidStep(p) => procs[p].canRes[procs[p].i] = "ok"]_vars

\* C35: add-card creates a provider intent and a payment row only while the
\* session's transaction is 'pending'; once it is 'processing', 'completed',
\* 'failed' or refunded, add-card on that session adds nothing.
C35_AddCardOnlyWhenPending ==
  [][\A sid \in 1..OneSession, amount \in CardAmounts, pid \in 1..MaxPayments :
       AddCard(sid, amount, pid) =>
         transactions[widgetSessions[sid].tx].status = "pending"]_vars

\* C36: for every session created by init, the session's transaction belongs
\* to the store of the session's shop domain, also when two shops present the
\* same checkout token.
C36_StoreIsolation ==
  \A sid \in Ids(widgetSessions) :
    transactions[widgetSessions[sid].tx].store = widgetSessions[sid].shop

\* C37: a transaction is 'refunded' only if its 'succeeded' refund rows add
\* up to its total amount; a refund whose provider calls all fail, are
\* skipped or stay pending does not make the transaction 'refunded'.
C37_RefundedMeansRefunded ==
  \A tx \in Ids(transactions) :
    transactions[tx].status = "refunded" =>
      TotalRefunded(refunds, tx) = transactions[tx].total

\* C38: when a capture fails after all authorizations succeeded, the
\* complete-checkout call returns with the transaction 'failed' and its stored
\* failure reason equal to "Capture failed after authorization".
C38_CaptureFailureReason ==
  [][\A p \in 1..MaxCompletes :
       (procs[p].pc # "done" /\ procs'[p].pc = "done" /\ procs'[p].result = "capture_failed") =>
          /\ transactions'[procs'[p].tx].status = "failed"
          /\ transactions'[procs'[p].tx].reason = "Capture failed after authorization"]_vars

\* C39: processing a charge.refunded event sets the matching refund row's
\* status to the status the provider reports ('pending', 'succeeded' or
\* 'failed'), and a refund row already 'succeeded' is never moved back to
\* 'pending' by such an event.
C39_RefundEventStatus ==
  [][\A r \in 1..MaxRefundRows, status \in RefundStatuses :
       (status \in Deliverable(r) /\ handleChargeRefundedWith(r, status)) =>
          /\ refunds'[r].status = status
          /\ refunds[r].status = "succeeded" => refunds'[r].status # "pending"]_vars

====
